---- MODULE Spec2Model ----
(***************************************************************************)
(* The real-time collaboration engine of NovaDocs:                         *)
(*   src/services/collaboration.py  (DocumentCollaborationManager,         *)
(*                                   CollaborationService)                 *)
(*   src/api/websocket/collaboration.py (the connection handler and the    *)
(*                                   administrative routes)                *)
(*                                                                         *)
(* Every coroutine is a task with a call stack of frames.  A frame is at a *)
(* suspension point (an await that yields to the event loop) or at a       *)
(* synchronous position.  One step of the model resumes one task at its    *)
(* suspension point and runs it, as asyncio does, without interruption to  *)
(* its next suspension point (Run).                                        *)
(***************************************************************************)
EXTENDS Integers, Sequences, FiniteSets, TLC

\* ------------------------------------------------------------------ bounds
\* inbound messages one connection handler reads before its client goes away
MaxInbound == 1
\* manager objects the service creates for the document in one behaviour
MaxManagers == 2
\* sweeps of the cleanup loop in one behaviour
MaxSweeps == 1
\* tasks that run in one behaviour
MaxActive == 2
\* the clock stops here (minutes)
MaxNow == 6
\* minutes that pass in one step of the clock
TickMinutes == 6

\* ------------------------------------------------------- program constants
\* handle_yjs_update: "if self.version % 10 == 0"
PersistEvery == 10
\* cleanup_inactive_users: timedelta(minutes=5)
InactiveMinutes == 5

\* ------------------------------------------------------------- identifiers
Conns == {"c1", "c2", "c3"}
AdminTasks == {"kick", "sync", "stop"}
CleanupTask == "cleanup"
Tasks == Conns \cup AdminTasks \cup {CleanupTask}
UserIds == {"u1", "u2", "u3"}
DocId == "d1"
\* a second document, which no connection of the model joins
OtherDoc == "d2"
NoUser == ""
NoConn == ""
NoMgr == 0
MgrIds == 1..MaxManagers

\* Optional values: None is the empty sequence, Some(x) the singleton
None == <<>>
Some(x) == <<x>>
IsNone(o) == o = <<>>
Val(o) == o[1]

\* ------------------------------------------------------------ bytes / hex
HexDigits == <<"0","1","2","3","4","5","6","7","8","9","a","b","c","d","e","f">>
HexDigit(n) == HexDigits[n + 1]
HexValue(d) == CHOOSE n \in 0..15 : HexDigits[n + 1] = d
IsHexDigit(d) == \E n \in 0..15 : HexDigits[n + 1] = d

\* bytes.hex(): two lower-case digits per byte
RECURSIVE Hex(_)
Hex(b) ==
  IF b = <<>> THEN <<>>
  ELSE <<HexDigit(Head(b) \div 16), HexDigit(Head(b) % 16)>> \o Hex(Tail(b))

\* bytes.fromhex() raises ValueError on an odd length or a non-hex digit
ValidHex(h) == Len(h) % 2 = 0 /\ \A i \in 1..Len(h) : IsHexDigit(h[i])

RECURSIVE FromHex(_)
FromHex(h) ==
  IF h = <<>> THEN <<>>
  ELSE <<HexValue(h[1]) * 16 + HexValue(h[2])>> \o FromHex(SubSeq(h, 3, Len(h)))

\* Python truthiness of Optional[bytes]: None and b"" are both falsy
Truthy(state) == ~IsNone(state) /\ Val(state) # <<>>

\* ------------------------------------------------------------------- dict
\* A Python dict as CPython lays it out: the entries in insertion order, a
\* deleted entry leaving a hole (live = FALSE) that iteration skips.  The
\* tables hold at most five entries before CPython would resize them; no
\* dict of the model gets more insertions than that.
EmptyDict == <<>>
DictUsed(d) == Cardinality({i \in 1..Len(d) : d[i].live})
DictHas(d, k) == \E i \in 1..Len(d) : d[i].live /\ d[i].k = k
DictIdx(d, k) == CHOOSE i \in 1..Len(d) : d[i].live /\ d[i].k = k
DictGet(d, k) == d[DictIdx(d, k)].v
DictKeys(d) == {d[i].k : i \in {j \in 1..Len(d) : d[j].live}}
\* d[k] = v: in place when k is present, appended otherwise
DictSet(d, k, v) ==
  IF DictHas(d, k) THEN [d EXCEPT ![DictIdx(d, k)].v = v]
  ELSE Append(d, [k |-> k, v |-> v, live |-> TRUE])
\* del d[k]
DictDel(d, k) == [d EXCEPT ![DictIdx(d, k)].live = FALSE]
\* list(d.keys())
RECURSIVE DictKeyList(_)
DictKeyList(d) ==
  IF d = <<>> THEN <<>>
  ELSE (IF Head(d).live THEN <<Head(d).k>> ELSE <<>>) \o DictKeyList(Tail(d))

\* list(d.items())
RECURSIVE DictItems(_)
DictItems(d) ==
  IF d = <<>> THEN <<>>
  ELSE (IF Head(d).live THEN <<[k |-> Head(d).k, v |-> Head(d).v]>> ELSE <<>>)
         \o DictItems(Tail(d))

\* iter(d): dictiterobject {di_used, di_pos, len}
NoIter == [used |-> 0, pos |-> 1, len |-> 0]
NewIter(d) == [used |-> DictUsed(d), pos |-> 1, len |-> DictUsed(d)]
\* first live entry at or after position p (Len(d) + 1 when there is none)
RECURSIVE SkipHoles(_, _)
SkipHoles(d, p) ==
  IF p > Len(d) THEN p
  ELSE IF d[p].live THEN p ELSE SkipHoles(d, p + 1)
\* next(it): "item", "stop" or "error" (RuntimeError: dictionary changed
\* size during iteration / dictionary keys changed during iteration)
IterNext(d, it) ==
  LET i == SkipHoles(d, it.pos) IN
  IF it.used # DictUsed(d) THEN [kind |-> "error", i |-> 0, it |-> it]
  ELSE IF i > Len(d) THEN [kind |-> "stop", i |-> 0, it |-> it]
  ELSE IF it.len = 0 THEN [kind |-> "error", i |-> 0, it |-> it]
  ELSE [kind |-> "item", i |-> i,
        it |-> [used |-> it.used, pos |-> i + 1, len |-> it.len - 1]]

\* ------------------------------------------------------------------ state
VARIABLES
  documents,   \* CollaborationService.documents: dict doc_id -> manager object
  mgrs,        \* the manager objects ever created, by identity 1..nmgr
  nmgr,        \* how many manager objects were created
  stack,       \* each task's call stack, the running frame last
  sock,        \* each websocket: "open", "gone" (client went away), "closed"
  userOf,      \* the user the token of each connection authenticates
  budget,      \* inbound messages each client may still send
  store,       \* Document Store: the page row written by the last commit
  cache,       \* Presence Store: the cached document entry
  presence,    \* Presence Store: users with a presence record for the doc
  now,         \* the clock, in minutes
  sweeps,      \* sweeps of the cleanup loop so far
  cleanup_task,\* "none", "running" or "cancelled"
  sent,        \* history: messages each task sent in its current operation
  cur,         \* history: the operation each task is in, or has just ended
  accepted,    \* history: the updates handle_yjs_update applied, in order
  tally,       \* history: per manager and user, sessions added and removed
  active       \* the tasks that run in this behaviour

vars == <<documents, mgrs, nmgr, stack, sock, userOf, budget, store, cache,
          presence, now, sweeps, cleanup_task, sent, cur, accepted, tally, active>>

\* the state as one record, for the steps of the interpreter; exc is the
\* exception in flight (None between steps), ret the outcome of the await
\* a step resumes from
State ==
  [documents |-> documents, mgrs |-> mgrs, nmgr |-> nmgr, stack |-> stack,
   sock |-> sock, userOf |-> userOf, budget |-> budget, store |-> store,
   cache |-> cache, presence |-> presence, now |-> now, sweeps |-> sweeps,
   cleanup_task |-> cleanup_task, sent |-> sent, cur |-> cur,
   accepted |-> accepted, tally |-> tally, exc |-> None, ret |-> [ok |-> TRUE]]

\* ------------------------------------------------------------- messages
\* outbound JSON messages; the fields a message type lacks keep defaults
Msg(type) ==
  [type |-> type, user |-> NoUser, version |-> 0, hex |-> <<>>, users |-> {},
   position |-> None]
\* inbound: json is FALSE for text json.loads rejects; update is
\* message["update"], data is message["data"], position is message["position"]
InMsg(type) ==
  [json |-> TRUE, type |-> type, update |-> None, content |-> None,
   data |-> None, position |-> None]
Malformed == [InMsg("") EXCEPT !.json = FALSE]
HexTexts == {<<"0", "1">>, <<"z", "z">>}
Inbound ==
  {Malformed, InMsg("ping"), InMsg("other"), InMsg("yjs_update"),
   [InMsg("content_update") EXCEPT !.content = Some(<<"0", "1">>)],
   [InMsg("cursor_update") EXCEPT !.data = Some([position |-> Some(1)])],
   [InMsg("cursor_update") EXCEPT !.position = Some(1)]}
  \cup {[InMsg("yjs_update") EXCEPT !.update = Some(h)] : h \in HexTexts}

\* --------------------------------------------------------------- objects
\* CollaborationUser (name and color are fixed by the user and left out)
CollaborationUser(t) == [cursor_position |-> None, last_seen |-> Some(t)]
\* YjsUpdate
YjsUpdate(u, data, v) == [user_id |-> u, update_data |-> data, version |-> v]
\* DocumentCollaborationManager.__init__; holder/waiters are the asyncio.Lock
NewManager ==
  [connections |-> EmptyDict, users |-> EmptyDict, document_state |-> None,
   update_queue |-> <<>>, version |-> 0, holder |-> "", waiters |-> <<>>]

\* ---------------------------------------------------------------- frames
Frame(fn, pc) ==
  [fn |-> fn, pc |-> pc, m |-> NoMgr, u |-> NoUser, ws |-> NoConn,
   it |-> NoIter, disc |-> <<>>, msg |-> Msg(""), tgt |-> NoConn,
   tgtu |-> NoUser, lst |-> <<>>, holds |-> FALSE, data |-> <<>>,
   inb |-> InMsg(""), pos |-> None, ver |-> 0, peers |-> {}, doc |-> DocId]
Top(s, t) == s.stack[t][Len(s.stack[t])]
Goto(s, t, pc) == [s EXCEPT !.stack[t][Len(s.stack[t])].pc = pc]
Push(s, t, f) == [s EXCEPT !.stack[t] = Append(@, f)]
\* call f and continue at retpc when it returns
Call(s, t, retpc, f) == Push(Goto(s, t, retpc), t, f)
Raise(s, e) == [s EXCEPT !.exc = Some(e)]
\* asyncio.Lock.release: the lock is free; the first waiter takes it when
\* the event loop resumes it
Release(s, m) == [s EXCEPT !.mgrs[m].holder = ""]
\* leave the running frame, by return or by an exception passing through:
\* "async with self.lock" releases the lock the frame holds
ReturnKeepsLock(s, t) ==
  [s EXCEPT !.stack[t] = SubSeq(@, 1, Len(@) - 1)]
Return(s, t) ==
  LET f == Top(s, t)
      s1 == IF f.holds THEN Release(s, f.m) ELSE s
  IN [s1 EXCEPT !.stack[t] = SubSeq(@, 1, Len(@) - 1)]
\* asyncio.Lock.acquire: taken at once when free and nobody waits, else the
\* task joins the FIFO of waiters and suspends
Acquire(s, t) ==
  LET f == Top(s, t) IN
  IF s.mgrs[f.m].holder = "" /\ s.mgrs[f.m].waiters = <<>>
  THEN [s EXCEPT !.mgrs[f.m].holder = t,
                 !.stack[t][Len(s.stack[t])].holds = TRUE,
                 !.stack[t][Len(s.stack[t])].pc = "locked"]
  ELSE [s EXCEPT !.mgrs[f.m].waiters = Append(@, t),
                 !.stack[t][Len(s.stack[t])].pc = "lock_wait"]
\* the waiter woken by release() takes the lock
Wake(s, t) ==
  LET f == Top(s, t) IN
  [s EXCEPT !.mgrs[f.m].holder = t, !.mgrs[f.m].waiters = Tail(@),
            !.stack[t][Len(s.stack[t])].holds = TRUE,
            !.stack[t][Len(s.stack[t])].pc = "locked"]
CanWake(s, t) ==
  LET f == Top(s, t) IN
  s.mgrs[f.m].holder = "" /\ s.mgrs[f.m].waiters # <<>>
    /\ Head(s.mgrs[f.m].waiters) = t
DeliverTwice(s, t, ws, msg) ==
  [s EXCEPT !.sent[t] = Append(Append(@, [to |-> ws, msg |-> msg]),
                               [to |-> ws, msg |-> msg])]
\* websocket.send_text(json.dumps(message)) succeeded: the message is out
Deliver(s, t, ws, msg) ==
  [s EXCEPT !.sent[t] = Append(@, [to |-> ws, msg |-> msg])]

\* history: a send of a broadcast of the task's operation to user u failed
NoteFailed(s, t, u) == [s EXCEPT !.cur[t].failed = @ \cup {u}]

\* ----------------------------------------- DocumentCollaborationManager
RemoveFrame(m, u) == [Frame("remove_user", "entry") EXCEPT !.m = m, !.u = u]
SendFrame(m, u, msg) ==
  [Frame("_send_to_user", "entry") EXCEPT !.m = m, !.u = u, !.msg = msg]
BcastFrame(m, u, msg) ==
  [Frame("_broadcast_except_user", "entry") EXCEPT !.m = m, !.u = u, !.msg = msg]
PersistFrame(m) == [Frame("_persist_document_state", "entry") EXCEPT !.m = m]

\* the guard of the sync_state send: "if self.document_state:"
HasState(mgr) == Truthy(mgr.document_state)

\* add_user(user_id, websocket, user_info)
add_user(s, t) ==
  LET f == Top(s, t)
      mgr == s.mgrs[f.m]
  IN
  CASE f.pc = "entry" -> Acquire(s, t)
    [] f.pc = "lock_wait" -> Wake(s, t)
    [] f.pc = "locked" ->
         LET s1 == [s EXCEPT
                      !.mgrs[f.m].connections = DictSet(@, f.u, f.ws),
                      !.mgrs[f.m].users = DictSet(@, f.u, CollaborationUser(s.now)),
                      !.tally[f.m][f.u].added = @ + 1,
                      !.cur[t].m = f.m,
                      !.cur[t].had_state = ~IsNone(mgr.document_state),
                      !.cur[t].content = mgr.document_state,
                      !.cur[t].version = mgr.version,
                      !.cur[t].peers = DictKeys(mgr.connections) \ {f.u}]
         IN IF HasState(mgr)
            THEN Call(s1, t, "send_users",
                      SendFrame(f.m, f.u,
                        [Msg("sync_state") EXCEPT
                           !.hex = Hex(Val(mgr.document_state)),
                           !.version = mgr.version]))
            ELSE Goto(s1, t, "send_users")
    [] f.pc = "send_users" ->
         Call(s, t, "notify",
              SendFrame(f.m, f.u,
                [Msg("users_updated") EXCEPT !.users = DictKeys(mgr.users)]))
    [] f.pc = "notify" ->
         IF DictHas(mgr.users, f.u)
         THEN Call(s, t, "after_bcast",
                   BcastFrame(f.m, f.u, [Msg("user_joined") EXCEPT !.user = f.u]))
         ELSE Raise(s, "KeyError")
    [] f.pc = "after_bcast" ->
         IF DictHas(mgr.users, f.u) THEN Goto(s, t, "presence")
         ELSE Raise(s, "KeyError")
    \* await redis_manager.set_user_presence(...)
    [] f.pc = "presence" ->
         IF s.ret.ok THEN Return([s EXCEPT !.presence = @ \cup {f.u}], t)
         ELSE Raise(s, "RedisError")

\* remove_user with the bug of notifying and clearing presence although the
\* user has no record ("if user_id in self.users" left out of the broadcast)
remove_user_renotifies(s, t) ==
  LET f == Top(s, t)
      mgr == s.mgrs[f.m]
  IN
  CASE f.pc = "entry" -> Acquire(s, t)
    [] f.pc = "lock_wait" -> Wake(s, t)
    [] f.pc = "locked" ->
         LET s1 == IF DictHas(mgr.connections, f.u)
                   THEN [s EXCEPT !.mgrs[f.m].connections = DictDel(@, f.u)]
                   ELSE s
             s2 == IF DictHas(mgr.users, f.u)
                   THEN [s1 EXCEPT !.mgrs[f.m].users = DictDel(@, f.u),
                                   !.tally[f.m][f.u].removed = @ + 1]
                   ELSE s1
         IN Call(s2, t, "presence",
                 BcastFrame(f.m, f.u, [Msg("user_left") EXCEPT !.user = f.u]))
    [] f.pc = "presence" ->
         IF s.ret.ok THEN Return([s EXCEPT !.presence = @ \ {f.u}], t)
         ELSE Raise(s, "RedisError")

\* remove_user with the bug of leaving the user's record in self.users
remove_user_keeps_record(s, t) ==
  LET f == Top(s, t)
      mgr == s.mgrs[f.m]
  IN
  CASE f.pc = "entry" -> Acquire(s, t)
    [] f.pc = "lock_wait" -> Wake(s, t)
    [] f.pc = "locked" ->
         IF DictHas(mgr.connections, f.u)
         THEN Call([s EXCEPT !.mgrs[f.m].connections = DictDel(@, f.u),
                             !.tally[f.m][f.u].removed = @ + 1], t,
                   "presence",
                   BcastFrame(f.m, f.u, [Msg("user_left") EXCEPT !.user = f.u]))
         ELSE Return(s, t)
    [] f.pc = "presence" ->
         IF s.ret.ok THEN Return([s EXCEPT !.presence = @ \ {f.u}], t)
         ELSE Raise(s, "RedisError")

\* remove_user(user_id)
remove_user(s, t) ==
  LET f == Top(s, t)
      mgr == s.mgrs[f.m]
  IN
  CASE f.pc = "entry" -> Acquire(s, t)
    [] f.pc = "lock_wait" -> Wake(s, t)
    [] f.pc = "locked" ->
         LET s1 == IF DictHas(mgr.connections, f.u)
                   THEN [s EXCEPT !.mgrs[f.m].connections = DictDel(@, f.u)]
                   ELSE s
         IN IF DictHas(mgr.users, f.u)
            THEN Call([s1 EXCEPT !.mgrs[f.m].users = DictDel(@, f.u),
                                 !.tally[f.m][f.u].removed = @ + 1], t,
                      "presence",
                      BcastFrame(f.m, f.u, [Msg("user_left") EXCEPT !.user = f.u]))
            ELSE Return(s1, t)
    \* await redis_manager.remove_user_presence(...)
    [] f.pc = "presence" ->
         IF s.ret.ok THEN Return([s EXCEPT !.presence = @ \ {f.u}], t)
         ELSE Raise(s, "RedisError")

\* ApplyUpdate with the bug "if update_data: self.document_state = update_data"
ApplyUpdateSkipsEmpty(mgr, u, data) ==
  [mgr EXCEPT !.update_queue = Append(@, YjsUpdate(u, data, mgr.version + 1)),
              !.version = @ + 1,
              !.document_state = IF data = <<>> THEN @ ELSE Some(data)]

ApplyUpdateNoCount(mgr, u, data) ==
  [mgr EXCEPT !.update_queue = Append(@, YjsUpdate(u, data, mgr.version + 1)),
              !.document_state = Some(data)]

\* the three assignments of handle_yjs_update under the lock
ApplyUpdate(mgr, u, data) ==
  [mgr EXCEPT !.update_queue = Append(@, YjsUpdate(u, data, mgr.version + 1)),
              !.version = @ + 1,
              !.document_state = Some(data)]

\* history: the connections that are registered as a user's websocket in
\* some manager
SessionConns(s) ==
  {q \in Conns : \E m \in 1..s.nmgr :
     /\ DictHas(s.mgrs[m].connections, s.userOf[q])
     /\ DictGet(s.mgrs[m].connections, s.userOf[q]) = q}

\* handle_yjs_update(user_id, update_data)
handle_yjs_update(s, t) ==
  LET f == Top(s, t)
      mgr == s.mgrs[f.m]
  IN
  CASE f.pc = "entry" -> Acquire(s, t)
    [] f.pc = "lock_wait" -> Wake(s, t)
    [] f.pc = "locked" ->
         LET new == ApplyUpdate(mgr, f.u, f.data) IN
         Call([s EXCEPT !.mgrs[f.m] = new,
                        !.accepted = Append(@, [m |-> f.m, data |-> f.data]),
                        !.cur[t].m = f.m,
                        !.cur[t].version = new.version,
                        !.cur[t].peers = DictKeys(mgr.connections) \ {f.u},
                        !.cur[t].joined =
                           {q \in SessionConns(s) : s.userOf[q] # f.u}], t, "cache",
              BcastFrame(f.m, f.u,
                [Msg("yjs_update") EXCEPT !.hex = Hex(f.data),
                                          !.version = new.version,
                                          !.user = f.u]))
    \* await redis_manager.cache_document(...)
    [] f.pc = "cache" ->
         IF ~s.ret.ok THEN Raise(s, "RedisError")
         ELSE LET s1 == [s EXCEPT !.cache =
                           Some([state |-> Hex(f.data), version |-> mgr.version])]
              IN IF mgr.version % PersistEvery = 0
                 THEN Call(s1, t, "persisted", PersistFrame(f.m))
                 ELSE Return(s1, t)
    [] f.pc = "persisted" -> Return(s, t)

\* handle_cursor_update(user_id, cursor_data); f.pos is cursor_data.get("position")
handle_cursor_update(s, t) ==
  LET f == Top(s, t)
      mgr == s.mgrs[f.m]
  IN
  CASE f.pc = "entry" ->
         IF DictHas(mgr.users, f.u)
         THEN Call([s EXCEPT !.mgrs[f.m].users =
                      DictSet(@, f.u, [cursor_position |-> f.pos,
                                       last_seen |-> Some(s.now)])], t,
                   "publish",
                   BcastFrame(f.m, f.u,
                     [Msg("cursor_update") EXCEPT !.user = f.u, !.position = f.pos]))
         ELSE Return(s, t)
    \* await redis_manager.publish_cursor_update(...)
    [] f.pc = "publish" ->
         IF s.ret.ok THEN Return(s, t) ELSE Raise(s, "RedisError")

\* _send_to_user(user_id, message)
SendToUser(s, t) ==
  LET f == Top(s, t)
      mgr == s.mgrs[f.m]
  IN
  CASE f.pc = "entry" ->
         IF DictHas(mgr.connections, f.u)
         THEN [s EXCEPT !.stack[t][Len(s.stack[t])].tgt = DictGet(mgr.connections, f.u),
                        !.stack[t][Len(s.stack[t])].pc = "send"]
         ELSE Return(s, t)
    \* await self.connections[user_id].send_text(...)
    [] f.pc = "send" ->
         IF s.sock[f.tgt] = "open" THEN Return(Deliver(s, t, f.tgt, f.msg), t)
         ELSE Call(s, t, "removed", RemoveFrame(f.m, f.u))
    [] f.pc = "removed" -> Return(s, t)

\* IsRecipient without the test: the broadcast reaches the excluded user too
IsRecipientAlways(user_id, except_user_id) == TRUE

\* IsRecipient with the test inverted: only the excluded user is sent to
IsRecipientInverted(user_id, except_user_id) == user_id = except_user_id

\* the test of _broadcast_except_user: "if user_id != except_user_id"
IsRecipient(user_id, except_user_id) == user_id # except_user_id

\* _broadcast_except_user(except_user_id, message)
BroadcastExceptUser(s, t) ==
  LET f == Top(s, t)
      mgr == s.mgrs[f.m]
      n == Len(s.stack[t])
  IN
  CASE f.pc = "entry" ->
         [s EXCEPT !.stack[t][n].it = NewIter(mgr.connections),
                   !.stack[t][n].peers = DictKeys(mgr.connections) \ {f.u},
                   !.stack[t][n].pc = "next"]
    \* for user_id, websocket in self.connections.items():
    [] f.pc = "next" ->
         LET r == IterNext(mgr.connections, f.it) IN
         IF r.kind = "error" THEN Raise(s, "RuntimeError")
         ELSE IF r.kind = "stop" THEN Goto(s, t, "remove")
         ELSE IF IsRecipient(mgr.connections[r.i].k, f.u)
              THEN [s EXCEPT !.stack[t][n].it = r.it,
                             !.stack[t][n].tgtu = mgr.connections[r.i].k,
                             !.stack[t][n].tgt = mgr.connections[r.i].v,
                             !.stack[t][n].pc = "send"]
              ELSE [s EXCEPT !.stack[t][n].it = r.it]
    \* await websocket.send_text(...)
    [] f.pc = "send" ->
         IF s.sock[f.tgt] = "open" THEN Goto(Deliver(s, t, f.tgt, f.msg), t, "next")
         ELSE [NoteFailed(s, t, f.tgtu) EXCEPT
                 !.stack[t][n].disc = Append(@, f.tgtu),
                 !.stack[t][n].pc = "next"]
    \* for user_id in disconnected_users: await self.remove_user(user_id)
    [] f.pc = "remove" ->
         IF f.disc = <<>> THEN Return(s, t)
         ELSE Push([s EXCEPT !.stack[t][n].disc = Tail(@)], t,
                   RemoveFrame(f.m, Head(f.disc)))

\* _persist_document_state(); the row is built from the state as it is when
\* db.execute is called and written when the commit succeeds
PersistDocumentStateRaises(s, t) ==
  LET f == Top(s, t)
      mgr == s.mgrs[f.m]
  IN
  CASE f.pc = "entry" ->
         IF ~Truthy(mgr.document_state) THEN Return(s, t)
         ELSE [s EXCEPT !.stack[t][Len(s.stack[t])].data = Val(mgr.document_state),
                        !.stack[t][Len(s.stack[t])].ver = mgr.version,
                        !.stack[t][Len(s.stack[t])].pc = "db",
                        !.cur[t].flushes = @ + 1]
    [] f.pc = "db" ->
         IF s.ret.ok
         THEN Return([s EXCEPT !.store =
                        Some([content |-> Hex(f.data), version |-> f.ver])], t)
         ELSE Raise(s, "DatabaseError")

PersistDocumentState(s, t) ==
  LET f == Top(s, t)
      mgr == s.mgrs[f.m]
  IN
  CASE f.pc = "entry" ->
         IF ~Truthy(mgr.document_state) THEN Return(s, t)
         ELSE [s EXCEPT !.stack[t][Len(s.stack[t])].data = Val(mgr.document_state),
                        !.stack[t][Len(s.stack[t])].ver = mgr.version,
                        !.stack[t][Len(s.stack[t])].pc = "db",
                        !.cur[t].flushes = @ + 1]
    \* await db.execute(...); await db.commit()
    [] f.pc = "db" ->
         IF s.ret.ok
         THEN Return([s EXCEPT !.store =
                        Some([content |-> Hex(f.data), version |-> f.ver])], t)
         ELSE Return(s, t)

\* cleanup_inactive_users(); f.lst is inactive_users
Inactive(mgr, t) ==
  LET RECURSIVE Scan(_)
      Scan(d) ==
        IF d = <<>> THEN <<>>
        ELSE (IF Head(d).live /\ ~IsNone(Head(d).v.last_seen)
                   /\ Val(Head(d).v.last_seen) < t - InactiveMinutes
              THEN <<Head(d).k>> ELSE <<>>) \o Scan(Tail(d))
  IN Scan(mgr.users)

\* history: the content updates, cursor updates and pings of a connection
ActivityTypes == {"yjs_update", "content_update", "cursor_update", "ping"}
\* history: the users of manager m from whom such a message was read less
\* than the inactivity timeout ago, on a connection that has not left since
Heard(s, m) ==
  {u \in DictKeys(s.mgrs[m].users) :
     \E c \in Conns :
       /\ s.userOf[c] = u
       /\ s.cur[c].op = "message" /\ s.cur[c].inb.json
       /\ s.cur[c].inb.type \in ActivityTypes
       /\ s.now - s.cur[c].at < InactiveMinutes}
\* the elements of a list
Elems(l) == {l[i] : i \in DOMAIN l}

cleanup_inactive_users(s, t) ==
  LET f == Top(s, t)
      n == Len(s.stack[t])
  IN
  CASE f.pc = "entry" ->
         [s EXCEPT !.stack[t][n].lst = Inactive(s.mgrs[f.m], s.now),
                   !.stack[t][n].pc = "loop",
                   !.cur[t].stale = @ \cup Elems(Inactive(s.mgrs[f.m], s.now)),
                   !.cur[t].heard = @ \cup Heard(s, f.m)]
    [] f.pc = "loop" ->
         IF f.lst = <<>> THEN Return(s, t)
         ELSE Push([s EXCEPT !.stack[t][n].lst = Tail(@)], t,
                   RemoveFrame(f.m, Head(f.lst)))

\* --------------------------------------------------- CollaborationService
NoOp == [op |-> "none", status |-> "none", inb |-> InMsg(""), failed |-> {},
         u |-> NoUser, m |-> NoMgr, had_state |-> FALSE, peers |-> {},
         version |-> 0, at |-> 0, stale |-> {}, heard |-> {}, idle |-> {},
         flushes |-> 0, denied |-> FALSE, held |-> FALSE, joined |-> {},
         content |-> None, member |-> FALSE]
\* history: task t starts operation op
Begin(s, t, op, u, inb) ==
  [s EXCEPT !.cur[t] = [NoOp EXCEPT !.op = op, !.status = "run", !.inb = inb,
                                   !.u = u, !.at = s.now,
                                   !.denied = s.cur[t].denied,
                                   !.held = s.cur[t].held,
                                   !.member = s.cur[t].member],
            !.sent[t] = <<>>]
\* history: the operation of task t ends (the first verdict stands)
Finish(s, t, status) ==
  IF s.cur[t].status = "run" THEN [s EXCEPT !.cur[t].status = status] ELSE s

\* history: user u has a session in the registered manager of the document,
\* over a connection whose join has returned and that waits for a message
HoldsSession(s, u) ==
  /\ DictHas(s.documents, DocId)
  /\ LET mgr == s.mgrs[DictGet(s.documents, DocId)] IN
     /\ DictHas(mgr.users, u)
     /\ DictHas(mgr.connections, u)
     /\ LET c == DictGet(mgr.connections, u) IN
        /\ Len(s.stack[c]) = 1
        /\ s.stack[c][1].pc = "receive"

\* join_document(doc_id, user_id, websocket, user_info)
join_document(s, t) ==
  LET f == Top(s, t) IN
  CASE f.pc = "perm" ->
         \* has_permission is s.ret.ok
         IF ~s.ret.ok
         THEN Return(Finish([s EXCEPT !.sock[f.ws] =
                               IF @ = "open" THEN "closed" ELSE @,
                             !.cur[t].denied = TRUE], t, "denied"), t)
         ELSE LET fresh == ~DictHas(s.documents, DocId)
                  s1 == IF fresh
                        THEN [s EXCEPT !.nmgr = @ + 1,
                                       !.mgrs[s.nmgr + 1] = NewManager,
                                       !.documents = DictSet(@, DocId, s.nmgr + 1)]
                        ELSE s
              IN Call(s1, t, "added",
                      [Frame("add_user", "entry") EXCEPT
                         !.m = DictGet(s1.documents, DocId), !.u = f.u, !.ws = f.ws])
    [] f.pc = "added" -> Return(s, t)

\* leave_document(doc_id, user_id)
leave_document(s, t) ==
  LET f == Top(s, t) IN
  CASE f.pc = "entry" ->
         IF DictHas(s.documents, DocId)
         THEN LET m == DictGet(s.documents, DocId) IN
              Call([s EXCEPT !.stack[t][Len(s.stack[t])].m = m], t, "removed",
                   RemoveFrame(m, f.u))
         ELSE Return(s, t)
    [] f.pc = "removed" ->
         IF DictUsed(s.mgrs[f.m].users) = 0
         THEN (IF DictHas(s.documents, DocId)
               THEN Return([s EXCEPT !.documents = DictDel(@, DocId)], t)
               ELSE Raise(Finish(s, t, "keyerror"), "KeyError"))
         ELSE Return(s, t)

\* handle_websocket_message(doc_id, user_id, message)
TouchDrops(users, u, now_) == DictDel(users, u)
\* doc_manager.users[user_id].last_seen = datetime.now()
Touch(users, u, now_) ==
  DictSet(users, u, [DictGet(users, u) EXCEPT !.last_seen = Some(now_)])

handle_websocket_message(s, t) ==
  LET f == Top(s, t)
      m == DictGet(s.documents, DocId)
      \* message.get("update", "")
      text == IF IsNone(f.inb.update) THEN <<>> ELSE Val(f.inb.update)
      \* message.get("data", {}).get("position")
      position == IF IsNone(f.inb.data) THEN None ELSE Val(f.inb.data).position
  IN
  CASE f.pc = "entry" ->
         IF ~DictHas(s.documents, DocId) THEN Return(s, t)
         ELSE IF f.inb.type = "yjs_update"
         THEN (IF ValidHex(text)
               THEN Call(s, t, "done",
                         [Frame("handle_yjs_update", "entry") EXCEPT
                            !.m = m, !.u = f.u, !.data = FromHex(text)])
               ELSE Raise(s, "ValueError"))
         ELSE IF f.inb.type = "cursor_update"
         THEN Call(s, t, "done",
                   [Frame("handle_cursor_update", "entry") EXCEPT
                      !.m = m, !.u = f.u, !.pos = position])
         ELSE IF f.inb.type = "ping" /\ DictHas(s.mgrs[m].users, f.u)
         THEN Return([s EXCEPT !.mgrs[m].users = Touch(@, f.u, s.now)], t)
         ELSE Return(s, t)
    [] f.pc = "done" -> Return(s, t)

\* history: the managers that are registered with no user
IdleManagers(s) ==
  {s.documents[i].v : i \in {j \in 1..Len(s.documents) :
      s.documents[j].live /\ DictUsed(s.mgrs[s.documents[j].v].users) = 0}}

\* _cleanup_loop(); f.lst is list(self.documents.items())
cleanup_loop(s, t) ==
  LET f == Top(s, t)
      n == Len(s.stack[t])
  IN
  \* await asyncio.sleep(60)
  CASE f.pc = "sleep" ->
         [Begin(s, t, "sweep", NoUser, InMsg("")) EXCEPT
            !.sweeps = @ + 1,
            !.cur[t].idle = IdleManagers(s),
            !.stack[t][n].lst = DictItems(s.documents),
            !.stack[t][n].pc = "iter"]
    [] f.pc = "iter" ->
         IF f.lst = <<>> THEN Goto(Finish(s, t, "ok"), t, "sleep")
         ELSE Call([s EXCEPT !.stack[t][n].lst = Tail(@),
                             !.stack[t][n].doc = Head(f.lst).k,
                             !.stack[t][n].m = Head(f.lst).v], t, "swept",
                   [Frame("cleanup_inactive_users", "entry") EXCEPT
                      !.m = Head(f.lst).v])
    [] f.pc = "swept" ->
         IF DictUsed(s.mgrs[f.m].users) = 0
         THEN (IF DictHas(s.documents, f.doc)
               THEN Goto([s EXCEPT !.documents = DictDel(@, f.doc)], t, "iter")
               ELSE Raise(s, "KeyError"))
         ELSE Goto(s, t, "iter")

\* history: the users with a session in some manager
Sessions(s) ==
  UNION {DictKeys(s.mgrs[m].users) \cup DictKeys(s.mgrs[m].connections) :
           m \in 1..s.nmgr}

CancelCleanupLeftRunning(task) == task
\* if self.cleanup_task: self.cleanup_task.cancel()
CancelCleanup(task) == IF task = "running" THEN "cancelled" ELSE task

\* stop(); f.it iterates self.documents.values(), f.lst is
\* list(doc_manager.users.keys())
stop(s, t) ==
  LET f == Top(s, t)
      n == Len(s.stack[t])
  IN
  CASE f.pc = "entry" ->
         [s EXCEPT !.cleanup_task = CancelCleanup(@),
                   !.cur[t].peers = Sessions(s),
                   !.stack[t][n].it = NewIter(s.documents),
                   !.stack[t][n].pc = "next"]
    [] f.pc = "next" ->
         LET r == IterNext(s.documents, f.it) IN
         IF r.kind = "error" THEN Raise(s, "RuntimeError")
         ELSE IF r.kind = "stop"
         THEN Return(Finish([s EXCEPT !.documents = EmptyDict], t, "ok"), t)
         ELSE [s EXCEPT !.stack[t][n].it = r.it,
                        !.stack[t][n].m = s.documents[r.i].v,
                        !.stack[t][n].lst =
                           DictKeyList(s.mgrs[s.documents[r.i].v].users),
                        !.stack[t][n].pc = "users"]
    [] f.pc = "users" ->
         IF f.lst = <<>> THEN Goto(s, t, "next")
         ELSE Push([s EXCEPT !.stack[t][n].lst = Tail(@)], t,
                   RemoveFrame(f.m, Head(f.lst)))

\* ------------------------------------------------- websocket / admin routes
\* kick_user_from_document(doc_id, user_id)
kick_user_from_document(s, t) ==
  LET f == Top(s, t) IN
  CASE f.pc = "entry" ->
         IF DictHas(s.documents, DocId)
         THEN Call(s, t, "done", RemoveFrame(DictGet(s.documents, DocId), f.u))
         ELSE Return(s, t)
    [] f.pc = "done" -> Return(s, t)

\* force_sync_document(doc_id)
force_sync_document(s, t) ==
  LET f == Top(s, t) IN
  CASE f.pc = "entry" ->
         IF DictHas(s.documents, DocId)
         THEN Call(s, t, "done", PersistFrame(DictGet(s.documents, DocId)))
         ELSE Return(s, t)
    [] f.pc = "done" -> Return(s, t)

\* websocket_collaboration(websocket, doc_id, token), from websocket.accept()
websocket_collaboration(s, t) ==
  LET f == Top(s, t)
      u == s.userOf[t]
  IN
  \* await websocket.accept(), then join_document
  CASE f.pc = "accept" ->
         Call([Begin(s, t, "join", u, InMsg("")) EXCEPT
                 !.cur[t].held = HoldsSession(s, u)], t, "joined",
              [Frame("join_document", "perm") EXCEPT !.u = u, !.ws = t])
    [] f.pc = "joined" ->
         \* history: the join made the user a member unless it was denied
         Goto([Finish(s, t, "ok") EXCEPT !.cur[t].member = ~s.cur[t].denied],
              t, "connected")
    \* await websocket.send_text({"type": "connected", ...})
    [] f.pc = "connected" ->
         IF s.sock[t] = "open"
         THEN Goto(Deliver(s, t, t, [Msg("connected") EXCEPT !.user = u]), t,
                   "receive")
         ELSE Goto(s, t, "close")
    \* data = await websocket.receive_text(); s.ret.inb is the client's text
    [] f.pc = "receive" ->
         IF s.sock[t] # "open" THEN Goto(s, t, "finally")
         ELSE LET s1 == [Begin(s, t, "message", u, s.ret.inb) EXCEPT
                           !.budget[t] = @ - 1]
              IN IF ~s.ret.inb.json THEN Goto(Finish(s1, t, "error"), t, "err_send")
                 ELSE Call(s1, t, "handled",
                           [Frame("handle_websocket_message", "entry") EXCEPT
                              !.u = u, !.inb = s.ret.inb])
    [] f.pc = "handled" -> Goto(Finish(s, t, "ok"), t, "receive")
    \* await websocket.send_text({"type": "error", ...})
    [] f.pc = "err_send" ->
         IF s.sock[t] = "open"
         THEN Goto(Deliver(s, t, t, Msg("error")), t, "receive")
         ELSE Goto(s, t, "close")
    \* await websocket.close(code=4000, ...)
    [] f.pc = "close" ->
         Goto([s EXCEPT !.sock[t] = IF @ = "open" THEN "closed" ELSE @], t,
              "finally")
    \* finally: await collaboration_service.leave_document(doc_id, user_id)
    [] f.pc = "finally" ->
         Call(Begin(s, t, "leave", u, InMsg("")), t, "left",
              [Frame("leave_document", "entry") EXCEPT !.u = u])
    [] f.pc = "left" -> Return(Finish(s, t, "ok"), t)

\* ------------------------------------------------------------ interpreter
\* the awaits that yield to the event loop
AwaitPoints ==
  {<<"ws", pc>> : pc \in {"accept", "connected", "receive", "err_send", "close"}}
  \cup {<<fn, "lock_wait">> : fn \in {"add_user", "remove_user", "handle_yjs_update"}}
  \cup {<<"join_document", "perm">>, <<"add_user", "presence">>,
        <<"remove_user", "presence">>, <<"handle_yjs_update", "cache">>,
        <<"handle_cursor_update", "publish">>, <<"_send_to_user", "send">>,
        <<"_broadcast_except_user", "send">>, <<"_persist_document_state", "db">>,
        <<"_cleanup_loop", "sleep">>}
Suspended(f) == <<f.fn, f.pc>> \in AwaitPoints

\* the running frame of task t takes its next step
Step(s, t) ==
  LET fn == Top(s, t).fn IN
  CASE fn = "ws" -> websocket_collaboration(s, t)
    [] fn = "join_document" -> join_document(s, t)
    [] fn = "leave_document" -> leave_document(s, t)
    [] fn = "handle_websocket_message" -> handle_websocket_message(s, t)
    [] fn = "add_user" -> add_user(s, t)
    [] fn = "remove_user" -> remove_user(s, t)
    [] fn = "handle_yjs_update" -> handle_yjs_update(s, t)
    [] fn = "handle_cursor_update" -> handle_cursor_update(s, t)
    [] fn = "_send_to_user" -> SendToUser(s, t)
    [] fn = "_broadcast_except_user" -> BroadcastExceptUser(s, t)
    [] fn = "_persist_document_state" -> PersistDocumentState(s, t)
    [] fn = "cleanup_inactive_users" -> cleanup_inactive_users(s, t)
    [] fn = "_cleanup_loop" -> cleanup_loop(s, t)
    [] fn = "stop" -> stop(s, t)
    [] fn = "kick" -> kick_user_from_document(s, t)
    [] fn = "sync" -> force_sync_document(s, t)

\* an exception reaches the running frame: the try blocks of
\* websocket_collaboration and _cleanup_loop catch it, every other frame is
\* left (a cancelled lock waiter leaves the lock's FIFO)
Unwind(s, t) ==
  LET f == Top(s, t)
      e == Val(s.exc)
      caught == Finish([s EXCEPT !.exc = None], t, "error")
  IN
  CASE f.fn = "ws" /\ f.pc = "joined" -> Goto(caught, t, "close")
    [] f.fn = "ws" /\ f.pc = "handled" -> Goto(caught, t, "err_send")
    [] f.fn = "_cleanup_loop" /\ e # "Cancelled" -> Goto(caught, t, "sleep")
    [] OTHER ->
         Return(IF f.pc = "lock_wait"
                THEN [s EXCEPT !.mgrs[f.m].waiters =
                        SelectSeq(@, LAMBDA w : w # t)]
                ELSE s, t)

\* run task t to its next suspension point, or to its end
RECURSIVE Run(_, _)
Run(s, t) ==
  IF s.stack[t] = <<>>
  THEN (IF IsNone(s.exc) THEN s
        ELSE Finish([s EXCEPT !.exc = None], t,
                    IF Val(s.exc) = "Cancelled" THEN "cancelled" ELSE "crash"))
  ELSE IF ~IsNone(s.exc) THEN Run(Unwind(s, t), t)
  ELSE IF Suspended(Top(s, t)) THEN s
  ELSE Run(Step(s, t), t)

Commit(s) ==
  /\ documents' = s.documents
  /\ mgrs' = s.mgrs
  /\ nmgr' = s.nmgr
  /\ stack' = s.stack
  /\ sock' = s.sock
  /\ userOf' = s.userOf
  /\ budget' = s.budget
  /\ store' = s.store
  /\ cache' = s.cache
  /\ presence' = s.presence
  /\ now' = s.now
  /\ sweeps' = s.sweeps
  /\ cleanup_task' = s.cleanup_task
  /\ sent' = s.sent
  /\ cur' = s.cur
  /\ accepted' = s.accepted
  /\ tally' = s.tally
  /\ UNCHANGED active

\* the outcome of an await: ok, and for receive_text the text received
Outcome(ok) == [ok |-> ok, inb |-> InMsg("")]
At(t, fn, pcs) ==
  /\ t \in active
  /\ stack[t] # <<>>
  /\ stack[t][Len(stack[t])].fn = fn
  /\ stack[t][Len(stack[t])].pc \in pcs
  /\ t = CleanupTask => cleanup_task = "running"
\* the event loop resumes task t with outcome r
Resume(t, r) == Commit(Run(Step([State EXCEPT !.ret = r], t), t))
\* a task starts with frame f and runs to its first suspension point
Spawn(t, op, f) ==
  Commit(Run(Push(Begin(State, t, op, f.u, InMsg("")), t, f), t))

\* ---------------------------------------------------------------- actions
LockedFns == {"add_user", "remove_user", "handle_yjs_update"}

\* the handler of c resumes from accept, from a send or from close
HandlerStep(c) ==
  /\ At(c, "ws", {"accept", "connected", "err_send", "close"})
  /\ Resume(c, Outcome(TRUE))
\* receive_text raises WebSocketDisconnect
HandlerDisconnected(c) ==
  /\ At(c, "ws", {"receive"})
  /\ sock[c] # "open"
  /\ Resume(c, Outcome(TRUE))
\* receive_text returns a text of the client
HandlerReceives(c) ==
  /\ At(c, "ws", {"receive"})
  /\ sock[c] = "open"
  /\ budget[c] > 0
  /\ \E inb \in Inbound : Resume(c, [ok |-> TRUE, inb |-> inb])
\* the connection handler of c resumes in websocket_collaboration
WebsocketCollaborationStep(c) ==
  \/ HandlerStep(c)
  \/ HandlerDisconnected(c)
  \/ HandlerReceives(c)

\* the permission check of join_document answers
JoinDocumentStep(c) ==
  /\ At(c, "join_document", {"perm"})
  /\ \E has \in BOOLEAN :
       /\ has => (DictHas(documents, DocId) \/ nmgr < MaxManagers)
       /\ Resume(c, Outcome(has))

\* a task waiting for a manager's lock gets it
LockStep(t) ==
  /\ \E fn \in LockedFns : At(t, fn, {"lock_wait"})
  /\ CanWake(State, t)
  /\ Resume(t, Outcome(TRUE))

\* the Presence Store answers add_user's set_user_presence
AddUserStep(t) ==
  /\ At(t, "add_user", {"presence"})
  /\ \E ok \in BOOLEAN : Resume(t, Outcome(ok))

\* the Presence Store answers remove_user's remove_user_presence
RemoveUserStep(t) ==
  /\ At(t, "remove_user", {"presence"})
  /\ \E ok \in BOOLEAN : Resume(t, Outcome(ok))

\* the cache answers handle_yjs_update's cache_document
HandleYjsUpdateStep(t) ==
  /\ At(t, "handle_yjs_update", {"cache"})
  /\ \E ok \in BOOLEAN : Resume(t, Outcome(ok))

\* the Presence Store answers handle_cursor_update's publish_cursor_update
HandleCursorUpdateStep(t) ==
  /\ At(t, "handle_cursor_update", {"publish"})
  /\ \E ok \in BOOLEAN : Resume(t, Outcome(ok))

\* a send of _send_to_user ends
SendToUserStep(t) ==
  /\ At(t, "_send_to_user", {"send"})
  /\ Resume(t, Outcome(TRUE))

\* a send of _broadcast_except_user ends
BroadcastStep(t) ==
  /\ At(t, "_broadcast_except_user", {"send"})
  /\ Resume(t, Outcome(TRUE))

\* the Document Store answers _persist_document_state
PersistStep(t) ==
  /\ At(t, "_persist_document_state", {"db"})
  /\ \E ok \in BOOLEAN : Resume(t, Outcome(ok))

\* CollaborationService.start()
Start ==
  /\ CleanupTask \in active
  /\ cleanup_task = "none"
  /\ cleanup_task' = "running"
  /\ stack' = [stack EXCEPT ![CleanupTask] = <<Frame("_cleanup_loop", "sleep")>>]
  /\ UNCHANGED <<documents, mgrs, nmgr, sock, userOf, budget, store, cache,
                 presence, now, sweeps, sent, cur, accepted, tally, active>>

\* the cleanup loop wakes from asyncio.sleep(60) and sweeps
CleanupLoopStep ==
  /\ At(CleanupTask, "_cleanup_loop", {"sleep"})
  /\ sweeps < MaxSweeps
  /\ Resume(CleanupTask, Outcome(TRUE))

\* the CancelledError of cleanup_task.cancel() is thrown into the cleanup task
CancelStep ==
  /\ cleanup_task = "cancelled"
  /\ stack[CleanupTask] # <<>>
  /\ Commit(Run(Raise(State, "Cancelled"), CleanupTask))

\* CollaborationService.stop() is called
Stop ==
  /\ "stop" \in active
  /\ stack["stop"] = <<>> /\ cur["stop"].op = "none"
  /\ Spawn("stop", "stop", Frame("stop", "entry"))

\* POST /collaboration/{doc_id}/kick/{user_id}
KickUser(u) ==
  /\ "kick" \in active
  /\ stack["kick"] = <<>> /\ cur["kick"].op = "none"
  /\ Spawn("kick", "kick", [Frame("kick", "entry") EXCEPT !.u = u])

\* POST /collaboration/{doc_id}/sync
ForceSync ==
  /\ "sync" \in active
  /\ stack["sync"] = <<>> /\ cur["sync"].op = "none"
  /\ Spawn("sync", "sync", Frame("sync", "entry"))

\* the client of connection c goes away
ClientGone(c) ==
  /\ c \in active
  /\ sock[c] = "open"
  /\ stack[c] # <<>>
  /\ sock' = [sock EXCEPT ![c] = "gone"]
  /\ UNCHANGED <<documents, mgrs, nmgr, stack, userOf, budget, store, cache,
                 presence, now, sweeps, cleanup_task, sent, cur, accepted, tally,
                 active>>

\* time passes
Tick ==
  /\ CleanupTask \in active
  /\ now + TickMinutes <= MaxNow
  /\ now' = now + TickMinutes
  /\ UNCHANGED <<documents, mgrs, nmgr, stack, sock, userOf, budget, store,
                 cache, presence, sweeps, cleanup_task, sent, cur, accepted, tally,
                 active>>

\* the users the tokens of the connections name: c3 is a second connection
\* of u1
UserAssignment ==
  [c \in Conns |-> IF c = "c2" THEN "u2" ELSE "u1"]

\* the tasks of one behaviour
\* (a connection other than c1 runs only next to c1: the other choices are
\* the same behaviours with the connections renamed)
Scenarios ==
  {a \in SUBSET Tasks :
     /\ Cardinality(a) <= MaxActive
     /\ a \cap Conns # {} => "c1" \in a}

Init ==
  /\ documents = EmptyDict
  /\ mgrs = [m \in MgrIds |-> NewManager]
  /\ nmgr = 0
  /\ stack = [t \in Tasks |-> IF t \in Conns THEN <<Frame("ws", "accept")>> ELSE <<>>]
  /\ sock = [c \in Conns |-> "open"]
  /\ userOf = UserAssignment
  /\ budget = [c \in Conns |-> MaxInbound]
  /\ store = None
  /\ cache = None
  /\ presence = {}
  /\ now = 0
  /\ sweeps = 0
  /\ cleanup_task = "none"
  /\ sent = [t \in Tasks |-> <<>>]
  /\ cur = [t \in Tasks |-> NoOp]
  /\ accepted = <<>>
  /\ tally = [m \in MgrIds |-> [u \in UserIds |-> [added |-> 0, removed |-> 0]]]
  /\ active \in Scenarios

Next ==
  \/ \E c \in Conns : WebsocketCollaborationStep(c)
  \/ \E c \in Conns : JoinDocumentStep(c)
  \/ \E t \in Tasks : LockStep(t)
  \/ \E t \in Tasks : AddUserStep(t)
  \/ \E t \in Tasks : RemoveUserStep(t)
  \/ \E t \in Tasks : HandleYjsUpdateStep(t)
  \/ \E t \in Tasks : HandleCursorUpdateStep(t)
  \/ \E t \in Tasks : SendToUserStep(t)
  \/ \E t \in Tasks : BroadcastStep(t)
  \/ \E t \in Tasks : PersistStep(t)
  \/ Start
  \/ CleanupLoopStep
  \/ CancelStep
  \/ Stop
  \/ \E u \in UserIds : KickUser(u)
  \/ ForceSync
  \/ \E c \in Conns : ClientGone(c)
  \/ Tick

Spec == Init /\ [][Next]_vars

\* ------------------------------------------------------------ properties
\* task t holds the lock of manager m
Holds(t, m) == \E i \in DOMAIN stack[t] : stack[t][i].holds /\ stack[t][i].m = m
\* task t waits for a lock that a frame below in its own call stack holds
SelfDeadlocked(t) ==
  /\ stack[t] # <<>>
  /\ stack[t][Len(stack[t])].pc = "lock_wait"
  /\ Holds(t, stack[t][Len(stack[t])].m)
\* the updates manager m accepted, in order
AcceptedOn(m) == SelectSeq(accepted, LAMBDA a : a.m = m)
\* the manager the registry maps the document to (NoMgr when none)
Registered == IF DictHas(documents, DocId) THEN DictGet(documents, DocId) ELSE NoMgr
\* the manager operations of the spec: add_session, remove_session,
\* apply_update, update_cursor
ManagerOps == {"add_user", "remove_user", "handle_yjs_update", "handle_cursor_update"}
\* task t is between the start and the end of the body of a manager
\* operation on m (past the acquisition of the lock, where there is one)
Executing(t, m) ==
  \E i \in DOMAIN stack[t] :
    /\ stack[t][i].fn \in ManagerOps
    /\ stack[t][i].m = m
    /\ stack[t][i].pc \notin {"entry", "lock_wait"}

\* C1: after N accepted updates a manager's version is N (the initial
\* version is 0) and its content_state is the payload of the most recent
\* accepted update; it is null while no update was accepted.
C1_LastWriteWins ==
  \A m \in MgrIds :
    LET acc == AcceptedOn(m) IN
    /\ mgrs[m].version = Len(acc)
    /\ mgrs[m].document_state =
         IF acc = <<>> THEN None ELSE Some(acc[Len(acc)].data)
\* two users have updated one manager, with different payloads
C1_Witness ==
  \E m \in MgrIds :
    /\ Len(AcceptedOn(m)) = 2
    /\ mgrs[m].update_queue[1].user_id # mgrs[m].update_queue[2].user_id
    /\ mgrs[m].update_queue[1].update_data # mgrs[m].update_queue[2].update_data
    /\ mgrs[m].update_queue[2].update_data = <<>>

\* C2: at most one task is inside add_user, remove_user, handle_yjs_update
\* or handle_cursor_update of one manager at any time.
C2_OneOperationAtATime ==
  \A m \in MgrIds : Cardinality({t \in Tasks : Executing(t, m)}) <= 1

\* the messages of type ty about user u that task t delivered to connection c
\* in its current operation
Deliveries(t, ty, u, c) ==
  {i \in DOMAIN sent[t] :
     sent[t][i].msg.type = ty /\ sent[t][i].msg.user = u /\ sent[t][i].to = c}
\* user p has, in some manager, a session whose connection is no longer open
DeadSession(p) ==
  \E m \in 1..nmgr :
    /\ DictHas(mgrs[m].connections, p)
    /\ sock[DictGet(mgrs[m].connections, p)] # "open"

\* C3: when a broadcast could not send to session P, every other
\* non-excluded session has received the message by the end of the
\* iteration, the enclosing operation does not hang, and P's session is gone
\* once the operation has finished.
C3_FailedPeerRemoved ==
  \A t \in Tasks :
    /\ \A i \in DOMAIN stack[t] :
         LET f == stack[t][i] IN
         (f.fn = "_broadcast_except_user" /\ f.pc = "remove") =>
           \A q \in f.peers \ cur[t].failed :
             \E j \in DOMAIN sent[t] :
               sent[t][j].msg = f.msg /\ userOf[sent[t][j].to] = q
    /\ \A p \in cur[t].failed :
         /\ ~(SelfDeadlocked(t) /\ DeadSession(p))
         /\ cur[t].status # "run" => ~DeadSession(p)

\* C4: no operation waits for a manager lock that its own call chain
\* already holds (such a wait never ends, and the lock is never released).
C4_NoSelfDeadlock == \A t \in Tasks : ~SelfDeadlocked(t)

\* some frame of some task is inside add_user of manager m
AddInProgress(m) ==
  \E t \in Tasks : \E i \in DOMAIN stack[t] :
    stack[t][i].fn = "add_user" /\ stack[t][i].m = m
\* manager object m is reachable: from the registry or from a running frame
Referenced(m) ==
  \/ Registered = m
  \/ \E t \in Tasks : \E i \in DOMAIN stack[t] : stack[t][i].m = m
\* manager object m holds sessions, or accepted state that is still reachable
Holding(m) ==
  \/ DictUsed(mgrs[m].users) > 0
  \/ mgrs[m].version > 0 /\ Referenced(m)

\* C5: a session whose add_user has completed is held by the manager the
\* registry maps the document to, and no two manager objects of the document
\* hold sessions or accepted state at the same time.
C5_OneManagerPerDocument ==
  /\ \A m \in 1..nmgr :
       (DictUsed(mgrs[m].users) > 0 /\ ~AddInProgress(m)) => Registered = m
  /\ Cardinality({m \in 1..nmgr : Holding(m)}) <= 1

\* C6: the content of the latest accepted update is the document_state of
\* the registered manager or the content of the page row in the Document
\* Store.
C6_NoAcceptedUpdateLost ==
  accepted # <<>> =>
    LET latest == accepted[Len(accepted)].data IN
    \/ Registered # NoMgr /\ mgrs[Registered].document_state = Some(latest)
    \/ ~IsNone(store) /\ Val(store).content = Hex(latest)

\* a removal of user u waits for a lock whose holder waits for it too, while
\* u still has a record: the removal never happens
RemovalBlocked(t) ==
  /\ stack[t] # <<>>
  /\ LET f == stack[t][Len(stack[t])] IN
     /\ f.fn = "remove_user" /\ f.pc = "lock_wait"
     /\ mgrs[f.m].holder # "" /\ SelfDeadlocked(mgrs[f.m].holder)
     /\ DictHas(mgrs[f.m].users, f.u)

\* C7: per join of a user its session is removed exactly once: never more
\* often than it was added, no session gets two user_left for that user from
\* one removal, no removal is blocked forever, and a connection handler that
\* has ended leaves no session of its connection behind.
C7_RemovedExactlyOnce ==
  /\ \A m \in MgrIds : \A u \in UserIds : tally[m][u].removed <= tally[m][u].added
  /\ \A t \in Tasks : \A u \in UserIds : \A c \in Conns :
       Cardinality(Deliveries(t, "user_left", u, c)) <= 1
  /\ \A t \in Tasks : ~RemovalBlocked(t)
  /\ \A c \in active \cap Conns :
       stack[c] = <<>> =>
         \A m \in 1..nmgr :
           ~(DictHas(mgrs[m].connections, userOf[c])
               /\ DictGet(mgrs[m].connections, userOf[c]) = c)

\* ---- remove_user called in a row, with nothing else running in between
\* run task t from its suspension point to its end; the Presence Store
\* answers ok; a task that has to wait for a lock stays where it is
RECURSIVE Complete(_, _, _)
Complete(s, t, ok) ==
  IF s.stack[t] = <<>> THEN s
  ELSE IF Top(s, t).pc = "lock_wait" THEN s
  ELSE Complete(Run(Step([s EXCEPT !.ret = Outcome(ok)], t), t), t, ok)
\* the state after one call of remove_user(u) on manager m, made from the
\* kick route's task
Removed(s, m, u, ok) ==
  Complete(Run(Push([s EXCEPT !.sent["kick"] = <<>>, !.cur["kick"] = NoOp],
                    "kick", RemoveFrame(m, u)), "kick"), "kick", ok)
Returned(s) == s.stack["kick"] = <<>>
\* what remove_user may change
Observable(s, m) ==
  [connections |-> s.mgrs[m].connections, users |-> s.mgrs[m].users,
   document_state |-> s.mgrs[m].document_state, version |-> s.mgrs[m].version,
   update_queue |-> s.mgrs[m].update_queue, presence |-> s.presence,
   store |-> s.store, cache |-> s.cache, documents |-> s.documents]
\* remove_user can be called on m: its lock is free and the route's task idle
Callable(m) ==
  /\ stack["kick"] = <<>>
  /\ mgrs[m].holder = "" /\ mgrs[m].waiters = <<>>

\* C8: a second remove_user(u) right after a first one that returned changes
\* nothing and sends nothing; remove_user of a user with no connection and no
\* record changes nothing and sends nothing.
C8_RemoveIdempotent ==
  \A m \in 1..nmgr : \A u \in UserIds : \A ok1, ok2 \in BOOLEAN :
    Callable(m) =>
      LET s1 == Removed(State, m, u, ok1) IN
      /\ Returned(s1) =>
           LET s2 == Removed(s1, m, u, ok2) IN
           /\ Returned(s2)
           /\ Observable(s2, m) = Observable(s1, m)
           /\ s2.sent["kick"] = <<>>
      /\ (~DictHas(mgrs[m].users, u) /\ ~DictHas(mgrs[m].connections, u)) =>
           /\ Returned(s1)
           /\ Observable(s1, m) = Observable(State, m)
           /\ s1.sent["kick"] = <<>>
\* a first remove_user returns after it removed a user, told a peer and
\* cleared the presence record
C8_Witness ==
  \E m \in 1..nmgr : \E u \in UserIds :
    /\ Callable(m)
    /\ DictHas(mgrs[m].users, u) /\ u \in presence
    /\ LET s1 == Removed(State, m, u, TRUE) IN
       /\ Returned(s1)
       /\ ~DictHas(s1.mgrs[m].users, u)
       /\ u \notin s1.presence
       /\ \E i \in DOMAIN s1.sent["kick"] : s1.sent["kick"][i].msg.type = "user_left"

\* connection c has ended a join that returned normally (no send of the join
\* failed) and is still open
Joined(c) ==
  /\ cur[c].op = "join" /\ cur[c].status = "ok"
  /\ sock[c] = "open"

\* C9: a join sends the joiner one sync_state when the manager had content (a
\* non-null document_state) and none otherwise, one users_updated, and one
\* user_joined to every user that was connected before.
C9_JoinMessages ==
  \A c \in Conns :
    Joined(c) =>
      LET u == cur[c].u IN
      /\ Cardinality({i \in DOMAIN sent[c] :
                        sent[c][i].msg.type = "sync_state" /\ sent[c][i].to = c})
           = IF cur[c].had_state THEN 1 ELSE 0
      /\ Cardinality({i \in DOMAIN sent[c] :
                        sent[c][i].msg.type = "users_updated" /\ sent[c][i].to = c})
           = 1
      /\ \A p \in cur[c].peers :
           Cardinality({i \in DOMAIN sent[c] :
                          /\ sent[c][i].msg.type = "user_joined"
                          /\ sent[c][i].msg.user = u
                          /\ userOf[sent[c][i].to] = p}) = 1

\* C10: a yjs_update message is never delivered to a connection of the user
\* whose update it carries.
C10_NoEcho ==
  \A t \in Tasks : \A i \in DOMAIN sent[t] :
    sent[t][i].msg.type = "yjs_update" =>
      userOf[sent[t][i].to] # sent[t][i].msg.user
\* an update of a user who has a session was delivered to another user while
\* the sender's own connection was in the map the broadcast iterated
C10_Witness ==
  \E t \in Tasks : \E i \in DOMAIN sent[t] : \E m \in 1..nmgr :
    /\ sent[t][i].msg.type = "yjs_update"
    /\ DictHas(mgrs[m].connections, sent[t][i].msg.user)
    /\ DictGet(mgrs[m].connections, sent[t][i].msg.user) = t
    /\ DictHas(mgrs[m].connections, userOf[sent[t][i].to])

\* the operation of task t applied an update and the iteration of its
\* broadcast is over
BroadcastDone(t) ==
  /\ cur[t].op = "message" /\ cur[t].m # NoMgr
  /\ ~\E i \in DOMAIN stack[t] :
        /\ stack[t][i].fn = "_broadcast_except_user"
        /\ stack[t][i].msg.type = "yjs_update"
        /\ stack[t][i].pc \in {"entry", "next", "send"}
\* the yjs_update messages task t delivered to a connection of user q
UpdatesTo(t, q) ==
  {i \in DOMAIN sent[t] :
     sent[t][i].msg.type = "yjs_update" /\ userOf[sent[t][i].to] = q}

\* C11: an accepted update of user U is delivered exactly once to every user
\* other than U that had a connection in the manager when the update was
\* applied and whose connection takes the send; the message carries the
\* bytes, the version and the user of the update_queue entry.
C11_UpdateDelivered ==
  \A t \in Tasks :
    /\ \A q \in UserIds : Cardinality(UpdatesTo(t, q)) <= 1
    /\ BroadcastDone(t) =>
         LET o == cur[t]
             upd == mgrs[o.m].update_queue[o.version]
         IN \A q \in o.peers \ o.failed :
              \E i \in UpdatesTo(t, q) :
                sent[t][i].msg = [Msg("yjs_update") EXCEPT
                                    !.hex = Hex(upd.update_data),
                                    !.version = upd.version,
                                    !.user = upd.user_id]
\* an update with a peer to deliver to has been broadcast
C11_Witness ==
  \E t \in Tasks :
    /\ BroadcastDone(t)
    /\ cur[t].peers \ cur[t].failed # {}
    /\ mgrs[cur[t].m].update_queue[cur[t].version].update_data # <<>>

\* ------------------------------------------------- the sweeps of two users
\* u1 and u2 have joined the document at time 0 over c1 and c2 and their
\* handlers wait in receive_text; the clients send nothing more
JoinedPair ==
  [NewManager EXCEPT
     !.connections = DictSet(DictSet(EmptyDict, "u1", "c1"), "u2", "c2"),
     !.users = DictSet(DictSet(EmptyDict, "u1", CollaborationUser(0)),
                       "u2", CollaborationUser(0))]
\* a second document is registered too; its only user was kicked, so that
\* its manager has no user; the two documents were created in either order
PairState ==
  /\ documents \in {DictSet(DictSet(EmptyDict, DocId, 1), OtherDoc, 2),
                    DictSet(DictSet(EmptyDict, OtherDoc, 2), DocId, 1)}
  /\ mgrs = [m \in MgrIds |-> IF m = 1 THEN JoinedPair ELSE NewManager]
  /\ nmgr = 2
  /\ stack = [t \in Tasks |->
                IF t \in {"c1", "c2"} THEN <<Frame("ws", "receive")>>
                ELSE IF t \in Conns THEN <<Frame("ws", "accept")>> ELSE <<>>]
  /\ sock = [c \in Conns |-> "open"]
  /\ userOf = UserAssignment
  /\ budget = [c \in Conns |-> 0]
  /\ store = None
  /\ cache = None
  /\ presence = {"u1", "u2"}
  /\ now = 0
  /\ sweeps = 0
  /\ cleanup_task = "none"
  /\ sent = [t \in Tasks |-> <<>>]
  /\ cur = [t \in Tasks |->
              IF t \in {"c1", "c2"}
              THEN [NoOp EXCEPT !.op = "join", !.status = "ok", !.m = 1,
                                !.u = UserAssignment[t], !.member = TRUE]
              ELSE NoOp]
  /\ accepted = <<>>
  /\ tally = [m \in MgrIds |-> [u \in UserIds |->
                [added |-> IF m = 1 /\ u \in {"u1", "u2"} THEN 1 ELSE 0,
                 removed |-> 0]]]
SweepInit == PairState /\ active = {"c1", "c2", CleanupTask}
SweepNext ==
  \/ Start
  \/ Tick
  \/ CleanupLoopStep
  \/ \E t \in Tasks : LockStep(t)
  \/ \E t \in Tasks : RemoveUserStep(t)
  \/ \E t \in Tasks : BroadcastStep(t)
  \/ \E c \in Conns : HandlerDisconnected(c)
  \/ \E c \in Conns : ClientGone(c)
SweepSpec == SweepInit /\ [][SweepNext]_vars

\* the cleanup loop has ended a sweep
SweepEnded == cur[CleanupTask].op = "sweep" /\ cur[CleanupTask].status # "run"
\* the user_left messages about u that the sweep delivered to a connection
\* of user q
LeftTo(u, q) ==
  {i \in DOMAIN sent[CleanupTask] :
     /\ sent[CleanupTask][i].msg.type = "user_left"
     /\ sent[CleanupTask][i].msg.user = u
     /\ userOf[sent[CleanupTask][i].to] = q}

\* C12: when a sweep has ended, no user whose last_seen was older than the
\* timeout when the sweep looked at the manager is left in it, and every
\* user that remains with an open connection got a user_left for each.
C12_SweepEvicts ==
  SweepEnded =>
    \A u \in cur[CleanupTask].stale : \A m \in 1..nmgr :
      /\ ~DictHas(mgrs[m].users, u)
      /\ \A q \in DictKeys(mgrs[m].connections) :
           sock[DictGet(mgrs[m].connections, q)] = "open" => LeftTo(u, q) # {}

\* C13: a content update, cursor update or ping of a joined user refreshes
\* its last_seen, and the sweep lists no user from whom such a message was
\* read less than the inactivity timeout before.
C13_ActivityRefreshes ==
  /\ \A c \in Conns :
       (/\ cur[c].op = "message" /\ cur[c].status = "ok" /\ cur[c].inb.json
        /\ cur[c].inb.type \in ActivityTypes
        /\ Registered # NoMgr
        /\ DictHas(mgrs[Registered].users, userOf[c]))
       => LET user == DictGet(mgrs[Registered].users, userOf[c]) IN
          ~IsNone(user.last_seen) /\ Val(user.last_seen) >= cur[c].at
  /\ cur[CleanupTask].stale \cap cur[CleanupTask].heard = {}

\* manager m is in the registry, under whatever document
InRegistry(m) == \E i \in 1..Len(documents) : documents[i].live /\ documents[i].v = m

\* C14: a manager that was registered with no user when a cleanup cycle
\* started is not in the registry when that cycle has ended.
C14_EmptyManagerSwept ==
  SweepEnded => \A m \in cur[CleanupTask].idle : ~InRegistry(m)

\* ------------------------------------------- the updates around version 10
\* u1 has joined the document over c1 and has sent nine updates with the
\* payload 01; it sends more, and the sync route may be called
StartVersion == PersistEvery - 1
NineUpdates ==
  [NewManager EXCEPT
     !.connections = DictSet(EmptyDict, "u1", "c1"),
     !.users = DictSet(EmptyDict, "u1", CollaborationUser(0)),
     !.document_state = Some(<<1>>),
     !.version = StartVersion,
     !.update_queue = [i \in 1..StartVersion |-> YjsUpdate("u1", <<1>>, i)]]
FlushInit ==
  /\ documents = DictSet(EmptyDict, DocId, 1)
  /\ mgrs = [m \in MgrIds |-> IF m = 1 THEN NineUpdates ELSE NewManager]
  /\ nmgr = 1
  /\ stack = [t \in Tasks |->
                IF t = "c1" THEN <<Frame("ws", "receive")>>
                ELSE IF t \in Conns THEN <<Frame("ws", "accept")>> ELSE <<>>]
  /\ sock = [c \in Conns |-> "open"]
  /\ userOf = UserAssignment
  /\ budget = [c \in Conns |-> IF c = "c1" THEN MaxInbound + 1 ELSE 0]
  /\ store = None
  /\ cache = Some([state |-> Hex(<<1>>), version |-> StartVersion])
  /\ presence = {"u1"}
  /\ now = 0
  /\ sweeps = 0
  /\ cleanup_task = "none"
  /\ sent = [t \in Tasks |-> <<>>]
  /\ cur = [t \in Tasks |->
              IF t = "c1"
              THEN [NoOp EXCEPT !.op = "message", !.status = "ok", !.m = 1,
                                !.u = "u1", !.version = StartVersion,
                                !.member = TRUE,
                                !.inb = [InMsg("yjs_update") EXCEPT
                                           !.update = Some(<<"0", "1">>)]]
              ELSE NoOp]
  /\ accepted = [i \in 1..StartVersion |-> [m |-> 1, data |-> <<1>>]]
  /\ tally = [m \in MgrIds |-> [u \in UserIds |->
                [added |-> IF m = 1 /\ u = "u1" THEN 1 ELSE 0, removed |-> 0]]]
  /\ active = {"c1", "sync"}
FlushNext ==
  \/ \E c \in Conns : HandlerReceives(c)
  \/ \E c \in Conns : HandlerStep(c)
  \/ \E c \in Conns : HandlerDisconnected(c)
  \/ \E c \in Conns : ClientGone(c)
  \/ \E t \in Tasks : HandleYjsUpdateStep(t)
  \/ \E t \in Tasks : HandleCursorUpdateStep(t)
  \/ \E t \in Tasks : PersistStep(t)
  \/ \E t \in Tasks : RemoveUserStep(t)
  \/ ForceSync
FlushSpec == FlushInit /\ [][FlushNext]_vars

\* the operation of task t applied an update and has returned normally
UpdateReturned(t) ==
  cur[t].op = "message" /\ cur[t].m # NoMgr /\ cur[t].status = "ok"

\* C15: an update that returns has attempted one write to the Document Store
\* when its version is a multiple of 10 and none otherwise, whatever its
\* payload is.
C15_FlushEveryTen ==
  \A t \in Tasks :
    UpdateReturned(t) =>
      cur[t].flushes = IF cur[t].version % PersistEvery = 0 THEN 1 ELSE 0

\* task t is inside the write of _persist_document_state
Writing(t) == At(t, "_persist_document_state", {"db"})
\* what that write stores when it succeeds
Written(t) ==
  Some([content |-> Hex(stack[t][Len(stack[t])].data),
        version |-> stack[t][Len(stack[t])].ver])
\* the fields of a manager a client can observe
Content(mgr) ==
  [version |-> mgr.version, document_state |-> mgr.document_state,
   update_queue |-> mgr.update_queue, users |-> mgr.users,
   connections |-> mgr.connections]

\* C16: a write to the Document Store that fails, in a periodic or in a forced
\* flush, leaves version, document_state, update_queue and the sessions of
\* every manager as they were, sends nothing to any client, does not end the
\* operation with an error, and is not attempted again by the operation.
C16_FailedWriteSilent ==
  [][\A t \in Tasks :
       (Writing(t) /\ stack'[t] # stack[t] /\ store' # Written(t)) =>
         /\ \A m \in MgrIds : Content(mgrs'[m]) = Content(mgrs[m])
         /\ store' = store
         /\ sent' = sent
         /\ cur'[t].status # "error"
         /\ cur'[t].flushes = cur[t].flushes
         /\ ~Writing(t)']_vars
C16_Witness ==
  \E t \in Tasks :
    /\ cur[t].op = "message" /\ cur[t].status = "ok"
    /\ cur[t].flushes = 1 /\ cur[t].version = PersistEvery
    /\ store = None

\* C17: the connection attempt of a user who held a session in the document
\* when the attempt began and whom the permission check has denied changes
\* neither the registry nor the sessions, document_state, version and
\* update_queue of any manager, in any of its steps up to its end.
C17_DeniedJoinNoEffect ==
  [][\A c \in Conns :
       (cur'[c].denied /\ cur'[c].held /\ stack'[c] # stack[c]) =>
         /\ documents' = documents
         /\ \A m \in MgrIds : Content(mgrs'[m]) = Content(mgrs[m])]_vars

\* ------------------------------------------------------- stop() with two users
\* the service is stopped while u1 and u2 are joined and idle
StopInit == PairState /\ active = {"c1", "c2", CleanupTask, "stop"}
\* (start() is the process start: it is not called once stop() has been)
StopNext ==
  \/ Start /\ cur["stop"].op = "none"
  \/ Tick
  \/ CleanupLoopStep
  \/ \E t \in Tasks : LockStep(t)
  \/ \E t \in Tasks : RemoveUserStep(t)
  \/ \E t \in Tasks : BroadcastStep(t)
  \/ \E c \in Conns : HandlerDisconnected(c)
  \/ \E c \in Conns : ClientGone(c)
  \/ Stop
  \/ CancelStep
StopSpec == StopInit /\ [][StopNext]_vars

\* the call of stop() has returned (without an exception)
StopReturned ==
  cur["stop"].op = "stop" /\ stack["stop"] = <<>> /\ cur["stop"].status = "ok"

Reads(c) == budget'[c] < budget[c]
\* the message types handle_websocket_message has a branch for
Dispatched == {"yjs_update", "cursor_update", "ping"}
\* manager mgr with the last_seen of user u left out
ExceptLastSeen(mgr, u) ==
  [mgr EXCEPT !.users =
     [i \in DOMAIN @ |-> IF @[i].k = u THEN [@[i] EXCEPT !.v.last_seen = None]
                         ELSE @[i]]]
\* nothing but the history of task c and its place in the handler changes
OnlyReads(c) ==
  /\ documents' = documents /\ nmgr' = nmgr
  /\ store' = store /\ cache' = cache /\ presence' = presence
  /\ sock' = sock /\ accepted' = accepted /\ tally' = tally
  /\ sent'[c] = <<>>
  /\ \A t \in Tasks \ {c} : sent'[t] = sent[t] /\ stack'[t] = stack[t]

\* C19: a ping read from a user with a session changes that user's last_seen
\* in the document's manager and nothing else; a message of a type that is
\* not dispatched, and any message read while the document has no registered
\* manager, changes no manager; none of them sends anything.
C19_DispatchFrame ==
  [][\A c \in Conns :
       (Reads(c) /\ cur'[c].inb.json) =>
         LET inb == cur'[c].inb
             u == userOf[c]
         IN /\ (inb.type = "ping" /\ HoldsSession(State, u)) =>
                 /\ OnlyReads(c)
                 /\ \A m \in MgrIds :
                      ExceptLastSeen(mgrs'[m], u) = ExceptLastSeen(mgrs[m], u)
            /\ (inb.type \notin Dispatched \/ ~DictHas(documents, DocId)) =>
                 /\ OnlyReads(c)
                 /\ mgrs' = mgrs]_vars
C19_Witness ==
  \E c \in Conns :
    /\ cur[c].op = "message" /\ cur[c].inb.type = "ping" /\ cur[c].status = "ok"
    /\ HoldsSession(State, userOf[c])
    /\ now > 0
    /\ DictGet(mgrs[DictGet(documents, DocId)].users, userOf[c]).last_seen
         = Some(now)

\* C20: a content_update read from a user with a session is applied as a
\* yjs_update is: the handler enters handle_yjs_update, which increments the
\* version of the document's manager and stores a payload as document_state
\* (or waits for the manager's lock to do so).
C20_ContentUpdateApplied ==
  [][\A c \in Conns :
       (/\ Reads(c)
        /\ cur'[c].inb.type = "content_update"
        /\ HoldsSession(State, userOf[c])) =>
         LET m == DictGet(documents, DocId) IN
         \/ /\ mgrs'[m].version = mgrs[m].version + 1
            /\ ~IsNone(mgrs'[m].document_state)
         \/ At(c, "handle_yjs_update", {"lock_wait"})']_vars

\* the handler of c has handled a message of the given type and is back in
\* receive_text, the user of c having a session
Handled(c, type) ==
  /\ cur[c].op = "message" /\ cur[c].inb.type = type /\ cur[c].status = "ok"
  /\ HoldsSession(State, userOf[c])

\* C21: when the handler has handled a ping of a user with a session, a pong
\* has been sent on that connection.
C21_PingAnswered ==
  \A c \in Conns :
    Handled(c, "ping") =>
      \E i \in 1..Len(sent[c]) :
        sent[c][i].to = c /\ sent[c][i].msg.type = "pong"

\* a text json.loads rejects, or an update whose hex text bytes.fromhex rejects
Undecodable(inb) ==
  \/ ~inb.json
  \/ /\ inb.type = "yjs_update"
     /\ ~IsNone(inb.update) /\ ~ValidHex(Val(inb.update))
\* the handler of c is about to send the error message for such a message
ReportsUndecodable(c) ==
  /\ At(c, "ws", {"err_send"})
  /\ Undecodable(cur[c].inb)
  /\ stack'[c] # stack[c]

\* C22: the step that reads an undecodable message of a user with a session
\* changes no manager and not the registry and leads to the error reply; the
\* reply, on a connection that is open, is the one message of the operation,
\* an error sent to that connection, changes no manager, and leaves the
\* connection open and the handler in receive_text.
C22_UndecodableReported ==
  [][\A c \in Conns :
       /\ (Reads(c) /\ Undecodable(cur'[c].inb)
             /\ HoldsSession(State, userOf[c])) =>
            /\ mgrs' = mgrs /\ documents' = documents
            /\ At(c, "ws", {"err_send"})'
       /\ (ReportsUndecodable(c) /\ sock[c] = "open") =>
            /\ sent'[c] = <<[to |-> c, msg |-> Msg("error")]>>
            /\ mgrs' = mgrs /\ documents' = documents
            /\ sock'[c] = "open"
            /\ At(c, "ws", {"receive"})']_vars
C22_Witness ==
  \E c \in Conns :
    /\ cur[c].op = "message" /\ Undecodable(cur[c].inb)
    /\ cur[c].inb.type = "yjs_update"
    /\ sent[c] = <<[to |-> c, msg |-> Msg("error")]>>
    /\ HoldsSession(State, userOf[c])

\* the message operation of the handler of c fails in this step, in an await
\* inside handle_websocket_message
FailsInside(c) ==
  /\ cur[c].op = "message" /\ cur[c].status = "run"
  /\ cur'[c].op = "message" /\ cur'[c].status = "error"
\* the handler of c sends the error message for such a failure
ReportsFailure(c) ==
  /\ At(c, "ws", {"err_send"})
  /\ ~Undecodable(cur[c].inb)
  /\ stack'[c] # stack[c]

\* C23: the step in which the handling of a message fails (the cache or the
\* publish call raising) leaves the task holding no lock and waiting for
\* none, changes no session, version, document_state or update_queue, and
\* leads to the error reply; the reply, on an open connection, is
\* one error message to that connection, changes no manager and returns the
\* handler to receive_text; no error message is ever sent to another
\* connection.
C23_FailureReported ==
  /\ [][\A c \in Conns :
          /\ FailsInside(c) =>
               /\ \A m \in MgrIds :
                    /\ mgrs'[m].holder # c
                    /\ \A i \in 1..Len(mgrs'[m].waiters) : mgrs'[m].waiters[i] # c
                    /\ Content(mgrs'[m]) = Content(mgrs[m])
               /\ documents' = documents
               /\ At(c, "ws", {"err_send"})'
          /\ (ReportsFailure(c) /\ sock[c] = "open") =>
               /\ sent'[c] = Append(sent[c], [to |-> c, msg |-> Msg("error")])
               /\ mgrs' = mgrs /\ documents' = documents
               /\ At(c, "ws", {"receive"})']_vars
  /\ [](\A t \in Tasks : \A i \in 1..Len(sent[t]) :
          sent[t][i].msg.type = "error" => sent[t][i].to = t)
C23_Witness ==
  \E c \in Conns :
    /\ At(c, "ws", {"receive"})
    /\ cur[c].op = "message" /\ cur[c].inb.type = "yjs_update"
    /\ cur[c].status = "error" /\ cur[c].m # NoMgr
    /\ sent[c] # <<>> /\ sent[c][Len(sent[c])] = [to |-> c, msg |-> Msg("error")]
    /\ mgrs[cur[c].m].holder = ""

\* C24: the step that reads a cursor_update carrying position p from a user
\* with a session sets that user's cursor_position to p.
C24_CursorStored ==
  [][\A c \in Conns :
       (/\ Reads(c)
        /\ cur'[c].inb.type = "cursor_update"
        /\ ~IsNone(cur'[c].inb.position)
        /\ HoldsSession(State, userOf[c])) =>
         LET m == DictGet(documents, DocId) IN
         /\ DictHas(mgrs'[m].users, userOf[c])
         /\ DictGet(mgrs'[m].users, userOf[c]).cursor_position
              = cur'[c].inb.position]_vars

\* task t is suspended on a send of the broadcast handle_cursor_update makes
CursorBroadcastSuspended(t) ==
  /\ At(t, "_broadcast_except_user", {"send"})
  /\ Len(stack[t]) > 1
  /\ stack[t][Len(stack[t]) - 1].fn = "handle_cursor_update"

\* C25: while the broadcast of a cursor update is suspended on a send, no step
\* of another task adds an entry to the connections of the manager it iterates
\* or removes one.
C25_ConnectionsStableInBroadcast ==
  [][\A t \in Tasks :
       (CursorBroadcastSuspended(t) /\ stack'[t] = stack[t]) =>
         LET m == stack[t][Len(stack[t])].m IN
         mgrs'[m].connections = mgrs[m].connections]_vars

\* the leave_document of task t returns in this step and the registry entry
\* of the document goes with it
LeaveDeletes(t) ==
  /\ Len(stack[t]) >= 2 /\ stack[t][2].fn = "leave_document"
  /\ stack'[t] = <<>>
  /\ DictHas(documents, DocId) /\ ~DictHas(documents', DocId)

\* C26: leave_document deletes the registry entry of the document only when
\* the entry maps to the manager it removed the user from and that manager
\* has no user, and, stop() not having been called, its `del` never raises
\* KeyError for an entry that is already gone.
C26_LeaveGuarded ==
  /\ [][\A t \in Conns :
          LeaveDeletes(t) =>
            /\ DictGet(documents, DocId) = stack[t][2].m
            /\ DictUsed(mgrs'[DictGet(documents, DocId)].users) = 0]_vars
  /\ [](cur["stop"].op = "none" =>
          \A t \in Conns : ~(cur[t].op = "leave" /\ cur[t].status = "keyerror"))

\* user u has been kicked: the call of the kick route for u has returned and
\* no manager has a session of u
Kicked(u) ==
  /\ cur["kick"].op = "kick" /\ cur["kick"].u = u /\ stack["kick"] = <<>>
  /\ \A m \in MgrIds :
       ~DictHas(mgrs[m].users, u) /\ ~DictHas(mgrs[m].connections, u)

\* C27: the step that reads a yjs_update on the still open connection of a
\* user who has been kicked changes the version, document_state and
\* update_queue of no manager.
C27_KickedCannotUpdate ==
  [][\A c \in Conns :
       (Reads(c) /\ cur'[c].inb.type = "yjs_update" /\ Kicked(userOf[c])) =>
         \A m \in MgrIds :
           /\ mgrs'[m].version = mgrs[m].version
           /\ mgrs'[m].document_state = mgrs[m].document_state
           /\ mgrs'[m].update_queue = mgrs[m].update_queue]_vars

\* C28: in every state the update_queue of a manager has as many entries as
\* its version says, the i-th entry carries version i, and document_state,
\* when not None, is the update_data of the last entry; and a step only
\* appends to the update_queue.
C28_UpdateLogConsistent ==
  /\ [](\A m \in MgrIds :
          LET mgr == mgrs[m] IN
          /\ Len(mgr.update_queue) = mgr.version
          /\ \A i \in 1..Len(mgr.update_queue) : mgr.update_queue[i].version = i
          /\ ~IsNone(mgr.document_state) =>
               /\ mgr.version > 0
               /\ Val(mgr.document_state)
                    = mgr.update_queue[mgr.version].update_data)
  /\ [][\A m \in MgrIds :
          /\ Len(mgrs'[m].update_queue) >= Len(mgrs[m].update_queue)
          /\ SubSeq(mgrs'[m].update_queue, 1, Len(mgrs[m].update_queue))
               = mgrs[m].update_queue]_vars
C28_Witness ==
  \E c \in Conns :
    /\ cur[c].op = "message" /\ cur[c].status = "error" /\ cur[c].m # NoMgr
    /\ mgrs[cur[c].m].version = 2
    /\ At(c, "ws", {"receive"})

\* ------------------------------------------- a manager that left the registry
\* u1 joined over c1 and its add_user failed at set_user_presence; while the
\* leave of c1 was suspended in remove_user, u2 began to join over c2 and got
\* the same manager; the leave then deleted the registry entry and u2's join
\* completed.  c2 waits in receive_text; u1 connects again over c3.
OrphanInit ==
  /\ documents = DictDel(DictSet(EmptyDict, DocId, 1), DocId)
  /\ mgrs = [m \in MgrIds |->
               IF m = 1
               THEN [NewManager EXCEPT
                       !.connections =
                          DictSet(DictDel(DictSet(EmptyDict, "u1", "c1"), "u1"),
                                  "u2", "c2"),
                       !.users =
                          DictSet(DictDel(DictSet(EmptyDict, "u1",
                                                  CollaborationUser(0)), "u1"),
                                  "u2", CollaborationUser(0))]
               ELSE NewManager]
  /\ nmgr = 1
  /\ stack = [t \in Tasks |->
                IF t = "c2" THEN <<Frame("ws", "receive")>>
                ELSE IF t = "c3" THEN <<Frame("ws", "accept")>> ELSE <<>>]
  /\ sock = [c \in Conns |-> IF c = "c1" THEN "closed" ELSE "open"]
  /\ userOf = UserAssignment
  /\ budget = [c \in Conns |-> IF c = "c1" THEN 0 ELSE MaxInbound]
  /\ store = None
  /\ cache = None
  /\ presence = {"u2"}
  /\ now = 0
  /\ sweeps = 0
  /\ cleanup_task = "none"
  /\ sent = [t \in Tasks |-> <<>>]
  /\ cur = [t \in Tasks |->
              IF t = "c2"
              THEN [NoOp EXCEPT !.op = "join", !.status = "ok", !.u = "u2",
                                !.m = 1, !.member = TRUE]
              ELSE IF t = "c1"
              THEN [NoOp EXCEPT !.op = "leave", !.status = "ok", !.u = "u1"]
              ELSE NoOp]
  /\ accepted = <<>>
  /\ tally = [m \in MgrIds |-> [u \in UserIds |->
                [added |-> IF m = 1 /\ u \in {"u1", "u2"} THEN 1 ELSE 0,
                 removed |-> IF m = 1 /\ u = "u1" THEN 1 ELSE 0]]]
  /\ active = {"c2", "c3"}
OrphanNext ==
  \/ \E c \in Conns : WebsocketCollaborationStep(c)
  \/ \E c \in Conns : JoinDocumentStep(c)
  \/ \E c \in Conns : ClientGone(c)
  \/ \E t \in Tasks : LockStep(t)
  \/ \E t \in Tasks : AddUserStep(t)
  \/ \E t \in Tasks : RemoveUserStep(t)
  \/ \E t \in Tasks : SendToUserStep(t)
  \/ \E t \in Tasks : BroadcastStep(t)
  \/ \E t \in Tasks : HandleYjsUpdateStep(t)
  \/ \E t \in Tasks : HandleCursorUpdateStep(t)
OrphanSpec == OrphanInit /\ [][OrphanNext]_vars

\* C29: when an update has been applied and its operation has returned, every
\* connection that was the registered websocket of another user when the
\* update was applied, and still is, with its socket open, has been sent the
\* yjs_update with the version of that update.
C29_NoUpdateSkipped ==
  \A c \in Conns :
    (cur[c].op = "message" /\ cur[c].m # NoMgr /\ cur[c].status = "ok") =>
      \A q \in cur[c].joined \cap SessionConns(State) :
        sock[q] = "open" =>
          \E i \in 1..Len(sent[c]) :
            /\ sent[c][i].to = q
            /\ sent[c][i].msg.type = "yjs_update"
            /\ sent[c][i].msg.version = cur[c].version

\* ------------------------------------------- the content sent to a joiner
\* C30: a user whose join has returned on a manager that had content, a
\* zero-length content included, has been sent a sync_state that carries that
\* content and the version the manager had.
C30_JoinerGetsContent ==
  \A c \in Conns :
    (Joined(c) /\ ~IsNone(cur[c].content)) =>
      \E i \in DOMAIN sent[c] :
        /\ sent[c][i].to = c
        /\ sent[c][i].msg.type = "sync_state"
        /\ sent[c][i].msg.hex = Hex(Val(cur[c].content))
        /\ sent[c][i].msg.version = cur[c].version

\* ------------------------------------------- the side effects of add_user
\* task t is inside add_user on manager m, past the registration of the user
\* and before the return that writes the presence record
InAddUser(t, m) ==
  \E i \in 1..Len(stack[t]) :
    /\ stack[t][i].fn = "add_user" /\ stack[t][i].m = m
    /\ stack[t][i].pc \in {"send_users", "notify", "after_bcast", "presence"}

\* this step of task t puts a message on a websocket
Sends(t) == Len(sent'[t]) > Len(sent[t])

\* the place of a message of add_user in the order of its side effects
JoinRank(type) ==
  CASE type = "sync_state" -> 1
    [] type = "users_updated" -> 2
    [] type = "user_joined" -> 3
    [] OTHER -> 0

\* the messages of the join of connection c are in the order sync_state,
\* users_updated, user_joined
JoinInOrder(c) ==
  \A i, j \in DOMAIN sent[c] :
    (i < j /\ JoinRank(sent[c][i].msg.type) > 0
           /\ JoinRank(sent[c][j].msg.type) > 0) =>
      JoinRank(sent[c][i].msg.type) <= JoinRank(sent[c][j].msg.type)

\* C31: the messages of one add_user go out in the order sync_state,
\* users_updated, user_joined, all of them before the step that writes the
\* presence record, and while a task is inside add_user no other task sends
\* a message on the same manager.
C31_AddUserOrder ==
  /\ [](\A c \in Conns : cur[c].op = "join" => JoinInOrder(c))
  /\ [][\A t \in Tasks :
         (cur[t].op = "join" /\ Sends(t)
            /\ JoinRank(sent'[t][Len(sent'[t])].msg.type) > 0) =>
           /\ \E m \in MgrIds : InAddUser(t, m)
           /\ presence' = presence]_vars
  /\ [][\A t, o \in Tasks : \A m \in MgrIds :
         (t # o /\ InAddUser(t, m) /\ Sends(o) /\ stack[o] # <<>>) =>
           stack[o][Len(stack[o])].m # m]_vars

\* ------------------------------------------ two connections of one user
\* connection q is open and is the websocket of its user's session in the
\* registered manager, its join has returned and it waits for a message
OwnsSession(q) ==
  /\ sock[q] = "open"
  /\ HoldsSession(State, userOf[q])
  /\ DictGet(mgrs[DictGet(documents, DocId)].connections, userOf[q]) = q

\* the handler of connection c is inside its leave_document
InLeave(c) == \E i \in 1..Len(stack[c]) : stack[c][i].fn = "leave_document"

\* C32: when the join of a user has returned over connection c and then over
\* connection q, no step of the leave_document that ends c takes away the
\* session q holds: the user stays in the manager's connections and users and
\* the manager stays in the registry.
C32_SecondConnectionKept ==
  [][\A c, q \in Conns :
       (/\ c # q /\ userOf[c] = userOf[q]
        /\ OwnsSession(q)
        /\ cur[c].member
        /\ InLeave(c) /\ stack'[c] # stack[c]) =>
         OwnsSession(q)']_vars

\* ------------------------------------------- connections and users agree
\* C33: in every state another coroutine can observe, the connections and the
\* users of every manager have the same set of user identifiers.
C33_SameUsers ==
  \A m \in MgrIds :
    DictKeys(mgrs[m].connections) = DictKeys(mgrs[m].users)

\* a task is suspended inside remove_user after its deletions, in a manager
\* that still has a user
C33_Witness ==
  \E t \in Tasks : \E m \in MgrIds :
    /\ \E i \in 1..Len(stack[t]) :
         /\ stack[t][i].fn = "remove_user" /\ stack[t][i].m = m
         /\ stack[t][i].pc = "presence"
    /\ DictKeys(mgrs[m].connections) # {}
    /\ \E u \in UserIds : tally[m][u].removed > 0

====
